---- MODULE Spec2Model ----
(***************************************************************************)
(* floco: a float wrapper Floco<F, C> whose payload is validated against   *)
(* the marker type C's implementation of the Constrained trait.            *)
(*                                                                         *)
(* The model follows src/src/lib.rs.  A float is a record (sign bit, class,*)
(* magnitude in tenths); a policy is a marker type implementing            *)
(* Constrained; the state is the multiset of live Floco values together    *)
(* with a record of the last call and what it returned.                    *)
(***************************************************************************)
EXTENDS Integers, Sequences, FiniteSets, Bags, TLC

\* The number of Floco values alive at once.
MaxInst == 1

----------------------------------------------------------------------------
(* Floats.  mag is the magnitude in tenths (42.0 is 420).                  *)

Float(neg, cls, mag) == [neg |-> neg, cls |-> cls, mag |-> mag]

\* F::zero(), the additive identity (+0.0)
zero == Float(FALSE, "zero", 0)
PosInf == Float(FALSE, "inf", 0)
F42_0 == Float(FALSE, "normal", 420)
FNeg50_0 == Float(TRUE, "normal", 500)
F99_9 == Float(FALSE, "normal", 999)

\* placeholder where a record of a call carries no float
NoFloat == Float(FALSE, "none", 0)

\* The raw values callers pass in.
Values == {zero, PosInf, F42_0, FNeg50_0, F99_9}

is_normal(v) == v.cls = "normal"
is_sign_positive(v) == ~v.neg
is_sign_negative(v) == v.neg
is_finite(v) == v.cls \in {"zero", "normal"}

----------------------------------------------------------------------------
(* Marker types implementing Constrained.  Foo, Bar and Qux are the        *)
(* markers of the crate's tests; Pos has Foo's predicate and, like Qux,    *)
(* leaves the optional get_default to the trait.                           *)

Policies == {"Foo", "Bar", "Qux", "Pos"}

\* markers that implement Constrained<f32> (Qux is generic over F)
F32Policies == {"Qux"}

\* markers that override get_default
Overrides == {"Foo", "Bar"}

is_valid(c, v) ==
    CASE c = "Foo" -> is_normal(v) /\ is_sign_positive(v)
      [] c = "Bar" -> is_normal(v) /\ is_sign_negative(v)
      [] c = "Qux" -> is_sign_positive(v)
      [] c = "Pos" -> is_normal(v) /\ is_sign_positive(v)

emit_error(c, v) ==
    CASE c = "Foo" -> "wow this is a bad foo"
      [] c = "Bar" -> "yikes this is a bad bar"
      [] c = "Qux" -> "omg this is a bad qux"
      [] c = "Pos" -> "this is a bad pos"

get_default(c) ==
    CASE c = "Foo" -> F99_9
      [] c = "Bar" -> FNeg50_0
      [] OTHER -> zero

----------------------------------------------------------------------------
(* Values of the program.                                                  *)

\* Floco<F, C>(payload, PhantomData<C>).  unchecked is history: whether
\* mutate_unchecked was ever called on this value.
Floco(c, payload, unchecked) == [c |-> c, payload |-> payload, unchecked |-> unchecked]

NoInst == Floco("none", NoFloat, FALSE)

\* Errors: a policy's own error (C::Error), serde's custom error built from
\* a message, and the format's own error for input that is no float.
NoErr == [kind |-> "none", msg |-> ""]
PolicyErr(e) == [kind |-> "policy", msg |-> e]
FormatErr == [kind |-> "format", msg |-> "invalid type"]

\* <C::Error as Debug>::fmt of a &'static str: the text in quotes
DebugFmt(e) == "\"" \o e \o "\""

\* <C::Error as Display>::fmt : the error type of the markers is &'static str,
\* whose display form is its text.
Display(e) == e

\* serde::de::Error::custom(msg)
de_custom(msg) == [kind |-> "custom", msg |-> msg]

----------------------------------------------------------------------------
(* The wire format.  Floco's Serialize and Deserialize impls hand the bare *)
(* float to the serializer; the crate's tests drive them with              *)
(* serde_json_core, whose text for a float is modelled here as ASCII codes.*)

RECURSIVE Digits(_)
\* the decimal digits of a natural number, as ASCII codes
Digits(n) == IF n < 10 THEN <<48 + n>> ELSE Digits(n \div 10) \o <<48 + (n % 10)>>

\* the text "null"
NullText == <<110, 117, 108, 108>>

\* the text without the sign
serialize_f64_unsigned(v) ==
    IF is_finite(v)
    THEN Digits(v.mag \div 10) \o <<46>> \o <<48 + (v.mag % 10)>>
    ELSE NullText

\* <f64 as Serialize>::serialize into JSON text: the shortest decimal form
\* of a finite float ("42.0"), null for one that is not finite.
serialize_f64(v) ==
    IF is_finite(v)
    THEN (IF v.neg THEN <<45>> ELSE <<>>) \o Digits(v.mag \div 10) \o <<46>>
             \o <<48 + (v.mag % 10)>>
    ELSE NullText

IsDigit(b) == b >= 48 /\ b <= 57

RECURSIVE Number(_)
\* the natural number a sequence of digit codes denotes
Number(ds) ==
    IF ds = <<>> THEN 0
    ELSE 10 * Number(SubSeq(ds, 1, Len(ds) - 1)) + (ds[Len(ds)] - 48)

\* <f64 as Deserialize>::deserialize from JSON text: an optional sign, digits,
\* and optionally a point and one more digit; anything else is an error of
\* the format.
deserialize_f64(t) ==
    LET neg == Len(t) > 0 /\ t[1] = 45
        body == IF neg THEN SubSeq(t, 2, Len(t)) ELSE t
        dots == {i \in 1..Len(body) : body[i] = 46}
        ip == IF dots = {} THEN body
              ELSE SubSeq(body, 1, (CHOOSE i \in dots : TRUE) - 1)
        fp == IF dots = {} THEN <<48>>
              ELSE SubSeq(body, (CHOOSE i \in dots : TRUE) + 1, Len(body))
        wellFormed == /\ Cardinality(dots) <= 1
                      /\ Len(ip) >= 1
                      /\ Len(fp) = 1
                      /\ \A i \in 1..Len(ip) : IsDigit(ip[i])
                      /\ IsDigit(fp[1])
        mag == 10 * Number(ip) + (fp[1] - 48)
    IN  IF wellFormed
        THEN [ok |-> TRUE,
              val |-> Float(neg, IF mag = 0 THEN "zero" ELSE "normal", mag)]
        ELSE [ok |-> FALSE, val |-> NoFloat]

\* Documents handed to deserialize from outside: "42.0", "-50.0", "0.0",
\* "null" and "4x".
Documents == {<<52, 50, 46, 48>>, <<45, 53, 48, 46, 48>>, <<48, 46, 48>>,
              NullText, <<52, 120>>}

----------------------------------------------------------------------------
(* The operations, as functions of their arguments.  Each result carries   *)
(* evals, the number of times the call evaluated C::is_valid.              *)

Ok(inst, evals) == [ok |-> TRUE, inst |-> inst, err |-> NoErr, evals |-> evals]
Err(e, evals) == [ok |-> FALSE, inst |-> NoInst, err |-> e, evals |-> evals]

\* Constrained::try_new with the validity check left out
Constrained_try_new_unchecked(c, v) == Ok(Floco(c, v, FALSE), 0)

\* Constrained::try_new, the trait's provided method
Constrained_try_new(c, v) ==
    IF is_valid(c, v)
    THEN Ok(Floco(c, v, FALSE), 1)
    ELSE Err(PolicyErr(emit_error(c, v)), 1)

\* Floco::try_new
Floco_try_new(c, v) == Constrained_try_new(c, v)

\* <Floco<f32, C> as TryFrom<f32>>::try_from
try_from_f32(c, v) == Constrained_try_new(c, v)

\* try_from building the value itself instead of going through try_new
try_from_f64_direct(c, v) == Ok(Floco(c, v, FALSE), 0)

\* <Floco<f64, C> as TryFrom<f64>>::try_from
try_from_f64(c, v) == Constrained_try_new(c, v)

\* <Floco<F, C> as Default>::default
Floco_default(c) == Ok(Floco(c, get_default(c), FALSE), 0)

\* Floco::get
get(inst) == inst.payload

\* mutate storing the new value before it checks it
mutate_store_first(inst, new_val) ==
    IF is_valid(inst.c, new_val)
    THEN Ok(Floco(inst.c, new_val, inst.unchecked), 1)
    ELSE [ok |-> FALSE, inst |-> Floco(inst.c, new_val, inst.unchecked),
          err |-> PolicyErr(emit_error(inst.c, new_val)), evals |-> 1]

\* Floco::mutate: inst is the value after the call
mutate(inst, new_val) ==
    IF is_valid(inst.c, new_val)
    THEN Ok(Floco(inst.c, new_val, inst.unchecked), 1)
    ELSE [ok |-> FALSE, inst |-> inst,
          err |-> PolicyErr(emit_error(inst.c, new_val)), evals |-> 1]

\* mutate_unchecked dropping a value the predicate rejects
mutate_unchecked_guarded(inst, new_val) ==
    IF is_valid(inst.c, new_val)
    THEN Ok(Floco(inst.c, new_val, TRUE), 1)
    ELSE Ok(Floco(inst.c, inst.payload, TRUE), 1)

\* Floco::mutate_unchecked: inst is the value after the call
mutate_unchecked(inst, new_val) == Ok(Floco(inst.c, new_val, TRUE), 0)

\* serialize as a derived impl would write the tuple struct: [payload,null]
serialize_derived(inst) ==
    [out |-> <<91>> \o serialize_f64(get(inst)) \o <<44>> \o NullText \o <<93>>,
     inst |-> inst, evals |-> 0]

\* <Floco<F, C> as Serialize>::serialize
serialize(inst) == [out |-> serialize_f64(get(inst)), inst |-> inst, evals |-> 0]

\* <Floco<F, C> as Deserialize>::deserialize
deserialize(c, t) ==
    LET value == deserialize_f64(t)
    IN  IF ~value.ok
        THEN Err(FormatErr, 0)
        ELSE LET r == Constrained_try_new(c, value.val)
             IN  IF r.ok THEN r ELSE Err(de_custom(Display(r.err.msg)), r.evals)

----------------------------------------------------------------------------
(* The state: the live Floco values, and the last call with its result.    *)

VARIABLES flocos, last

vars == <<flocos, last>>

NoCall == [op |-> "none", c |-> "none", v |-> NoFloat, doc |-> <<>>,
           pre |-> NoInst, post |-> NoInst, ok |-> TRUE, err |-> NoErr,
           out |-> <<>>, ret |-> NoFloat, evals |-> 0, src |-> NoFloat]

Live == BagToSet(flocos)

Room == BagCardinality(flocos) < MaxInst

Init ==
    /\ flocos = EmptyBag
    /\ last = NoCall

\* A constructor call returning r: a value comes to life when r is Ok.
Construct(op, c, v, r) ==
    /\ r.ok => Room
    /\ flocos' = IF r.ok THEN flocos (+) SetToBag({r.inst}) ELSE flocos
    /\ last' = [NoCall EXCEPT !.op = op, !.c = c, !.v = v, !.post = r.inst,
                              !.ok = r.ok, !.err = r.err, !.evals = r.evals]

CallConstrainedTryNew(c, v) ==
    Construct("Constrained::try_new", c, v, Constrained_try_new(c, v))

CallFlocoTryNew(c, v) ==
    Construct("Floco::try_new", c, v, Floco_try_new(c, v))

CallTryFromF32(c, v) ==
    Construct("try_from_f32", c, v, try_from_f32(c, v))

CallTryFromF64(c, v) ==
    Construct("try_from_f64", c, v, try_from_f64(c, v))

CallDefault(c) ==
    Construct("default", c, NoFloat, Floco_default(c))

CallGet(inst) ==
    /\ UNCHANGED flocos
    /\ last' = [NoCall EXCEPT !.op = "get", !.c = inst.c, !.pre = inst,
                              !.post = inst, !.ret = get(inst)]

\* A call on a live value through &mut self: the value is replaced by r.inst.
Update(op, inst, v, r) ==
    /\ flocos' = (flocos (-) SetToBag({inst})) (+) SetToBag({r.inst})
    /\ last' = [NoCall EXCEPT !.op = op, !.c = inst.c, !.v = v, !.pre = inst,
                              !.post = r.inst, !.ok = r.ok, !.err = r.err,
                              !.evals = r.evals]

CallMutate(inst, v) == Update("mutate", inst, v, mutate(inst, v))

CallMutateUnchecked(inst, v) ==
    Update("mutate_unchecked", inst, v, mutate_unchecked(inst, v))

CallSerialize(inst) ==
    LET r == serialize(inst)
    IN  /\ flocos' = (flocos (-) SetToBag({inst})) (+) SetToBag({r.inst})
        /\ last' = [NoCall EXCEPT !.op = "serialize", !.c = inst.c, !.pre = inst,
                                  !.post = r.inst, !.out = r.out,
                                  !.evals = r.evals]

\* The input is a document from outside or the text the last call, a
\* serialize, wrote.  src remembers the payload that text was written from
\* when it is read back under the same marker type.
CallDeserialize(c, t) ==
    LET r == deserialize(c, t)
        src == IF last.op = "serialize" /\ t = last.out /\ last.c = c
               THEN last.post.payload ELSE NoFloat
    IN  /\ r.ok => Room
        /\ flocos' = IF r.ok THEN flocos (+) SetToBag({r.inst}) ELSE flocos
        /\ last' = [NoCall EXCEPT !.op = "deserialize", !.c = c, !.doc = t,
                                  !.post = r.inst, !.ok = r.ok, !.err = r.err,
                                  !.evals = r.evals, !.src = src]

\* A value goes out of scope.  This is no call: last stays.
Drop(inst) ==
    /\ flocos' = flocos (-) SetToBag({inst})
    /\ UNCHANGED last

Inputs == Documents \cup (IF last.op = "serialize" THEN {last.out} ELSE {})

Next ==
    \/ \E c \in Policies, v \in Values : CallConstrainedTryNew(c, v)
    \/ \E c \in Policies, v \in Values : CallFlocoTryNew(c, v)
    \/ \E c \in F32Policies, v \in Values : CallTryFromF32(c, v)
    \/ \E c \in Policies, v \in Values : CallTryFromF64(c, v)
    \/ \E c \in Policies : CallDefault(c)
    \/ \E inst \in Live : CallGet(inst)
    \/ \E inst \in Live, v \in Values : CallMutate(inst, v)
    \/ \E inst \in Live, v \in Values : CallMutateUnchecked(inst, v)
    \/ \E inst \in Live : CallSerialize(inst)
    \/ \E c \in Policies, t \in Inputs : CallDeserialize(c, t)
    \/ \E inst \in Live : Drop(inst)

Spec == Init /\ [][Next]_vars

----------------------------------------------------------------------------
(* A client holding two values, each built by Constrained::try_new, and    *)
(* calling the methods of Floco on them.                                   *)

Built == {Constrained_try_new(c, v).inst : c \in Policies, v \in Values} \ {NoInst}

InitPair ==
    /\ \E a \in Built, b \in Built : flocos = SetToBag({a}) (+) SetToBag({b})
    /\ last = NoCall

NextPair ==
    \/ \E inst \in Live : CallGet(inst)
    \/ \E inst \in Live, v \in Values : CallMutate(inst, v)
    \/ \E inst \in Live, v \in Values : CallMutateUnchecked(inst, v)
    \/ \E inst \in Live : CallSerialize(inst)

SpecPair == InitPair /\ [][NextPair]_vars

----------------------------------------------------------------------------
(* Properties.                                                             *)

TryNewOps == {"Constrained::try_new", "Floco::try_new"}
TryFromOps == {"try_from_f32", "try_from_f64"}

\* the last call brought a Floco value into existence
Created == last.pre = NoInst /\ last.post # NoInst

\* C1: every live value that mutate_unchecked was never called on satisfies
\* its marker's is_valid.
C1_ValidUnlessUnchecked ==
    \A inst \in Live : ~inst.unchecked => is_valid(inst.c, get(inst))

\* C2: try_new (of the trait and of Floco) evaluates is_valid(v); when it
\* holds the call is Ok with a value whose get() is v itself, otherwise it is
\* Err(emit_error(v)) and there is no value.
C2_TryNew ==
    last.op \in TryNewOps =>
        /\ last.evals = 1
        /\ IF is_valid(last.c, last.v)
           THEN /\ last.ok
                /\ last.post.c = last.c
                /\ get(last.post) = last.v
           ELSE /\ ~last.ok
                /\ last.err = PolicyErr(emit_error(last.c, last.v))
                /\ last.post = NoInst

\* a successful try_new: Foo::try_new(42.0)
C2_Witness ==
    /\ last.op = "Constrained::try_new"
    /\ last.c = "Foo"
    /\ last.v = F42_0
    /\ last.ok
    /\ BagIn(Floco("Foo", F42_0, FALSE), flocos)

\* C3: mutate(new_val) with is_valid(new_val) false is Err(emit_error(new_val))
\* and leaves the payload as it was, also when that payload is itself invalid;
\* with is_valid(new_val) true it is Ok and get() is new_val afterwards.
C3_Mutate ==
    last.op = "mutate" =>
        /\ last.post.c = last.pre.c
        /\ IF is_valid(last.c, last.v)
           THEN /\ last.ok
                /\ get(last.post) = last.v
           ELSE /\ ~last.ok
                /\ last.err = PolicyErr(emit_error(last.c, last.v))
                /\ get(last.post) = get(last.pre)

\* a rejected mutate on a value that mutate_unchecked had made invalid
C3_Witness ==
    /\ last.op = "mutate"
    /\ ~last.ok
    /\ last.pre.unchecked
    /\ ~is_valid(last.c, get(last.pre))
    /\ BagIn(last.pre, flocos)

\* C4: deserializing a float v under C goes through C::try_new: when
\* is_valid(v) is false the result is the format's custom error carrying the
\* display form of emit_error(v), the marker's message, and no value; when it
\* is true the result is a value with payload v.
C4_Deserialize ==
    last.op = "deserialize" =>
        LET value == deserialize_f64(last.doc)
        IN  value.ok =>
                IF is_valid(last.c, value.val)
                THEN /\ last.ok
                     /\ last.post = Floco(last.c, value.val, FALSE)
                ELSE /\ ~last.ok
                     /\ last.post = NoInst
                     /\ last.err.kind = "custom"
                     /\ last.err.msg = emit_error(last.c, value.val)

\* the text 42.0 under Bar, which takes negative floats only
C4_Witness ==
    /\ last.op = "deserialize"
    /\ last.c = "Bar"
    /\ last.doc = <<52, 50, 46, 48>>
    /\ ~last.ok
    /\ last.err.msg = "yikes this is a bad bar"

\* C5 as stated: the text serialize wrote for a valid payload v deserializes,
\* under the same marker type, to a value whose get() is v.
C5_RoundTripAnyValid ==
    (last.op = "deserialize" /\ last.src # NoFloat /\ is_valid(last.c, last.src)) =>
        (last.ok /\ get(last.post) = last.src)

\* C5 amended: the same for every valid payload that is finite.
C5_RoundTripFinite ==
    (/\ last.op = "deserialize"
     /\ last.src # NoFloat
     /\ is_valid(last.c, last.src)
     /\ is_finite(last.src)) =>
        (last.ok /\ get(last.post) = last.src)

\* -50.0 written from a Bar value and read back as a Bar value
C5_Witness ==
    /\ last.op = "deserialize"
    /\ last.c = "Bar"
    /\ last.src = FNeg50_0
    /\ last.doc = <<45, 53, 48, 46, 48>>
    /\ last.ok
    /\ BagIn(Floco("Bar", FNeg50_0, FALSE), flocos)

\* C6: a value comes into existence only through a call that evaluated
\* is_valid on its payload.
C6_CreatedOnlyValidated ==
    Created => (last.op \in TryNewOps \cup TryFromOps \cup {"deserialize"}
                /\ last.evals >= 1)

\* C7: default() of a marker that does not override get_default has get()
\* equal to zero and a payload that satisfies is_valid; of a marker that
\* overrides it, get() is the overriding value (99.9 for Foo, -50.0 for Bar).
C7_Default ==
    last.op = "default" =>
        /\ last.c \notin Overrides =>
               (get(last.post) = zero /\ is_valid(last.c, get(last.post)))
        /\ last.c = "Foo" => get(last.post) = F99_9
        /\ last.c = "Bar" => get(last.post) = FNeg50_0

\* C8: try_from(v) and C::try_new(v) agree: both Ok with the same payload v or
\* both Err with the same error emit_error(v).
C8_TryFrom ==
    last.op \in TryFromOps =>
        LET r == Constrained_try_new(last.c, last.v)
        IN  /\ last.ok = r.ok
            /\ last.post = r.inst
            /\ last.err = r.err
            /\ last.ok = is_valid(last.c, last.v)
            /\ last.ok => get(last.post) = last.v
            /\ ~last.ok => last.err = PolicyErr(emit_error(last.c, last.v))

\* try_from of a positive f64 under Bar fails
C8_Witness ==
    /\ last.op = "try_from_f64"
    /\ last.c = "Bar"
    /\ last.v = F42_0
    /\ ~last.ok

\* C9: serialize writes the serialization of the bare payload get() returns:
\* values with equal payloads under different marker types serialize to the
\* same text, and the call neither evaluates is_valid nor changes the value.
C9_Serialize ==
    last.op = "serialize" =>
        /\ last.out = serialize_f64(get(last.pre))
        /\ last.evals = 0
        /\ last.post = last.pre
        /\ \A inst \in Live :
               get(inst) = get(last.pre) => serialize(inst).out = last.out

\* a value was serialized while a value of another marker type with the same
\* payload is alive
C9_Witness ==
    /\ last.op = "serialize"
    /\ BagIn(last.pre, flocos)
    /\ \E inst \in Live : inst.c # last.pre.c /\ get(inst) = get(last.pre)

\* C10: mutate_unchecked(new_val) has no error result, does not evaluate
\* is_valid, and get() is new_val afterwards, valid or not.
C10_MutateUnchecked ==
    last.op = "mutate_unchecked" =>
        /\ last.ok
        /\ last.err = NoErr
        /\ last.evals = 0
        /\ get(last.post) = last.v
        /\ last.post.c = last.pre.c

\* mutate_unchecked stored a value its marker type rejects
C10_Witness ==
    /\ last.op = "mutate_unchecked"
    /\ ~is_valid(last.c, last.v)
    /\ BagIn(Floco(last.c, last.v, TRUE), flocos)

====
